---------------------------- MODULE Spec2Model ----------------------------
(***************************************************************************)
(* A model of gpu_waiter: the command template engine (src/command.rs),    *)
(* the cross-process file lock (src/lock.rs) and the admission loop, the   *)
(* release monitor and the supervisor loop of main (src/main.rs).          *)
(***************************************************************************)
EXTENDS Integers, Sequences, FiniteSets, TLC

(***************************************************************************)
(* Strings are sequences of characters; a character is a one-character     *)
(* string.  "é" stands for any character whose UTF-8 encoding takes more   *)
(* than one byte: char_indices reports byte offsets, chars().take counts   *)
(* characters.                                                             *)
(***************************************************************************)
MaxLen == 5

UsizeMax == 2147483647

Min(a, b) == IF a < b THEN a ELSE b

len_utf8(c) == IF c = "é" THEN 2 ELSE 1

IsBracketChar(c) == c = "{" \/ c = "}"

\* Iterator::take(n) on the remaining characters, and what by_ref() leaves.
Take(chrs, n) == SubSeq(chrs, 1, Min(n, Len(chrs)))

Rest(chrs, n) == SubSeq(chrs, Min(n, Len(chrs)) + 1, Len(chrs))

NoStatus == [kind |-> "None", s |-> 0]

\* One step of the scan over command.char_indices(): i is the byte offset of c.
ScanStep(st, i, c) ==
    IF st.status.kind = "None"
    THEN [st EXCEPT !.status =
              [kind |-> IF IsBracketChar(c) THEN "Bracket" ELSE "Plain", s |-> i]]
    ELSE IF st.status.kind = "Plain" /\ IsBracketChar(c)
    THEN [status   |-> [kind |-> "Bracket", s |-> i],
          segments |-> Append(st.segments,
                              [kind |-> "Plain", start |-> st.status.s, end |-> i])]
    ELSE IF st.status.kind = "Bracket" /\ ~IsBracketChar(c)
    THEN [status   |-> [kind |-> "Plain", s |-> i],
          segments |-> Append(st.segments,
                              [kind |-> "Bracket", start |-> st.status.s, end |-> i])]
    ELSE st

RECURSIVE ScanFrom(_, _, _, _)
ScanFrom(command, k, i, st) ==
    IF k > Len(command) THEN st
    ELSE ScanFrom(command, k + 1, i + len_utf8(command[k]),
                  ScanStep(st, i, command[k]))

\* The segment list: the scan, then the open segment closed at usize::MAX.
ScanSegments(command) ==
    LET st == ScanFrom(command, 1, 0, [status |-> NoStatus, segments |-> << >>])
    IN  IF st.status.kind = "None" THEN st.segments
        ELSE Append(st.segments,
                    [kind |-> st.status.kind, start |-> st.status.s, end |-> UsizeMax])

\* ProcessChunk with the two counters incremented the other way round.
ProcessChunk_counters(acc, chrs, template) ==
    IF chrs = <<"{", "}">>
    THEN [acc EXCEPT !.command = @ \o template, !.template_count = @ + 1]
    ELSE IF chrs \in {<<"{", "{">>, <<"}", "}">>}
    THEN [acc EXCEPT !.command = Append(@, chrs[1]),
                     !.template_count = @ + 1,
                     !.total_count = @ + 1]
    ELSE [acc EXCEPT !.ok = FALSE]

\* ProcessChunk without the `{{` arm.
ProcessChunk_noescape(acc, chrs, template) ==
    IF chrs = <<"{", "}">>
    THEN [acc EXCEPT !.command = @ \o template,
                     !.template_count = @ + 1,
                     !.total_count = @ + 1]
    ELSE IF chrs = <<"}", "}">>
    THEN [acc EXCEPT !.command = Append(@, "}"), !.template_count = @ + 1]
    ELSE [acc EXCEPT !.ok = FALSE]

\* ProcessChunk that copies a leftover single character instead of failing.
ProcessChunk_leftover(acc, chrs, template) ==
    IF chrs = <<"{", "}">>
    THEN [acc EXCEPT !.command = @ \o template,
                     !.template_count = @ + 1,
                     !.total_count = @ + 1]
    ELSE IF chrs = <<"{", "{">>
    THEN [acc EXCEPT !.command = Append(@, "{"), !.template_count = @ + 1]
    ELSE IF chrs = <<"}", "}">>
    THEN [acc EXCEPT !.command = Append(@, "}"), !.template_count = @ + 1]
    ELSE IF Len(chrs) = 1
    THEN [acc EXCEPT !.command = @ \o chrs]
    ELSE [acc EXCEPT !.ok = FALSE]

\* ProcessChunk that copies an escape pair without collapsing it.
ProcessChunk_double(acc, chrs, template) ==
    IF chrs = <<"{", "}">>
    THEN [acc EXCEPT !.command = @ \o template,
                     !.template_count = @ + 1,
                     !.total_count = @ + 1]
    ELSE IF chrs \in {<<"{", "{">>, <<"}", "}">>}
    THEN [acc EXCEPT !.command = @ \o chrs, !.template_count = @ + 1]
    ELSE [acc EXCEPT !.ok = FALSE]

\* ProcessChunk that rejects `{}` when there is nothing to substitute.
ProcessChunk_emptyfails(acc, chrs, template) ==
    IF chrs = <<"{", "}">> /\ template /= << >>
    THEN [acc EXCEPT !.command = @ \o template,
                     !.template_count = @ + 1,
                     !.total_count = @ + 1]
    ELSE IF chrs = <<"{", "{">>
    THEN [acc EXCEPT !.command = Append(@, "{"), !.template_count = @ + 1]
    ELSE IF chrs = <<"}", "}">>
    THEN [acc EXCEPT !.command = Append(@, "}"), !.template_count = @ + 1]
    ELSE [acc EXCEPT !.ok = FALSE]

\* One 2-character chunk of a bracket span (the last chunk may be shorter).
ProcessChunk(acc, chrs, template) ==
    IF chrs = <<"{", "}">>
    THEN [acc EXCEPT !.command = @ \o template,
                     !.template_count = @ + 1,
                     !.total_count = @ + 1]
    ELSE IF chrs = <<"{", "{">>
    THEN [acc EXCEPT !.command = Append(@, "{"), !.template_count = @ + 1]
    ELSE IF chrs = <<"}", "}">>
    THEN [acc EXCEPT !.command = Append(@, "}"), !.template_count = @ + 1]
    ELSE [acc EXCEPT !.ok = FALSE]

RECURSIVE ProcessChunks(_, _, _)
ProcessChunks(acc, content, template) ==
    IF ~acc.ok \/ content = << >> THEN acc
    ELSE ProcessChunks(ProcessChunk(acc, Take(content, 2), template),
                       Rest(content, 2), template)

\* The body of `for segment in segments`, on the characters not yet consumed.
ProcessSegment(acc, seg, chrs, template) ==
    LET content == Take(chrs, seg.end - seg.start)
    IN  IF seg.kind = "Plain"
        THEN [acc EXCEPT !.command = @ \o content]
        ELSE IF content \in {<<"{">>, <<"}">>, <<"}", "{">>}
        THEN [acc EXCEPT !.command = @ \o content]
        ELSE ProcessChunks(acc, content, template)

RECURSIVE ProcessSegments(_, _, _, _, _)
ProcessSegments(acc, segments, k, chrs, template) ==
    IF ~acc.ok \/ k > Len(segments) THEN acc
    ELSE ProcessSegments(ProcessSegment(acc, segments[k], chrs, template),
                         segments, k + 1,
                         Rest(chrs, segments[k].end - segments[k].start),
                         template)

\* A bail! returns the error alone: no partial command, no counts.
InvalidBracketSyntax == [ok |-> FALSE, command |-> << >>,
                         template_count |-> 0, total_count |-> 0]

process_command_template(command_str, template_str) ==
    LET acc == ProcessSegments([ok |-> TRUE, command |-> << >>,
                                template_count |-> 0, total_count |-> 0],
                               ScanSegments(command_str), 1, command_str,
                               template_str)
    IN  IF acc.ok THEN acc ELSE InvalidBracketSyntax

(***************************************************************************)
(* The processes: independent invocations of the tool on one host, each    *)
(* with its main thread, its monitor thread and its child-wait thread.     *)
(***************************************************************************)
NumInstances == 2

DeviceCount == 3

MaxNum == 2

MaxQueue == 2

NumCallers == 3

NumUsers == 2

Instances == 1..NumInstances

\* The processes that open the lock file.
Callers == 1..NumCallers

Devices == 0..(DeviceCount - 1)

None == [some |-> FALSE, v |-> << >>]

Some(x) == [some |-> TRUE, v |-> x]

VARIABLES
    t_command, t_template, t_result,   \* the template engine on its own
    num, force_env, cmds,              \* Cli of each process
    STOPPED,                           \* the cancellation flag of each process
    pc,                                \* where each main thread is
    outcome,                           \* what main returned
    has_template,
    idle_gpu,                          \* Option<Vec<u32>>: the ClaimSet
    flock,                             \* holder of the exclusive lock on the lock file, 0: free
    occupantions,                      \* the holds: device ids whose allocation is alive
    compute,                           \* per device: a compute process other than the tool's holds
    mpc, mscan,                        \* monitor thread: position, index of its scan
    device_used, device_used_r,        \* monitor channel and the supervisor's Option<&Receiver>
    proc_exit,                         \* child-wait channel
    child,                             \* the child process
    wait_result,                       \* what cmd.wait() returned
    final_cmd, env,                    \* what the child was spawned with
    lock_file, world_readable,         \* the lock file: who created it, who may open it
    cred, fpc, file, created,          \* each caller of open_or_create_file
    idle_seen, sent, released, handled, ended_by   \* history

tvars == <<t_command, t_template, t_result>>

cli == <<num, force_env, cmds>>

hist == <<idle_seen, sent, released, handled, ended_by>>

fvars == <<lock_file, world_readable, cred, fpc, file, created>>

vars == <<t_command, t_template, t_result, num, force_env, cmds, STOPPED, pc,
          outcome, has_template, idle_gpu, flock, occupantions, compute, mpc,
          mscan, device_used, device_used_r, proc_exit, child, wait_result,
          final_cmd, env, lock_file, world_readable, cred, fpc, file, created,
          idle_seen, sent, released, handled, ended_by>>

(***************************************************************************)
(* The Resource Backend as main.rs uses it.                                *)
(***************************************************************************)
\* How many tool processes have a live allocation (a CUDA context) on device d.
Holders(d) ==
    Cardinality({i \in Instances :
                    \E k \in 1..Len(occupantions[i]) : occupantions[i][k] = d})

running_compute_processes_count(d) ==
    Holders(d) + (IF compute[d] THEN 1 ELSE 0)

RECURSIVE IdleFrom(_)
IdleFrom(d) ==
    IF d >= DeviceCount THEN << >>
    ELSE (IF running_compute_processes_count(d) = 0 THEN <<d>> ELSE << >>)
         \o IdleFrom(d + 1)

get_idle_gpu == IdleFrom(0)

\* Truncate that keeps the last n.
Truncate_last(idle_gpus, n) == SubSeq(idle_gpus, Len(idle_gpus) - n + 1, Len(idle_gpus))

\* idle_gpus.splice(n.., empty()): keep the first n.
Truncate(idle_gpus, n) == SubSeq(idle_gpus, 1, n)

\* Retain with the predicate inverted.
Retain_inverted(occ, used_index) == SelectSeq(occ, LAMBDA j : j = used_index)

\* occupantions.write().retain(|(j, _)| *j != used_index)
Retain(occ, used_index) == SelectSeq(occ, LAMBDA j : j /= used_index)

Range(s) == {s[k] : k \in 1..Len(s)}

Digit == <<"0", "1", "2", "3", "4", "5", "6", "7", "8", "9">>

RECURSIVE to_string(_)
to_string(n) ==
    IF n < 10 THEN <<Digit[n + 1]>>
    ELSE Append(to_string(n \div 10), Digit[(n % 10) + 1])

RECURSIVE Join(_, _)
Join(strs, sep) ==
    IF strs = << >> THEN << >>
    ELSE IF Len(strs) = 1 THEN strs[1]
    ELSE strs[1] \o sep \o Join(Tail(strs), sep)

gpu_list_str(gpus) == Join([k \in 1..Len(gpus) |-> to_string(gpus[k])], <<",">>)

\* A lock that is granted whoever holds it, as a shared lock is to readers.
lock_shared(i) == TRUE

\* file.lock_exclusive() returns for process i: nobody holds the lock.
lock_exclusive(i) == flock = 0

\* The cap of the model on the unbounded channel: a scan starts only when the
\* channel has room for every event the scan can send.
CanScan(i) == Len(device_used[i]) + Len(occupantions[i]) <= MaxQueue

\* The backend's idle set: the devices no compute process runs on.
IdleSet == {d \in Devices : running_compute_processes_count(d) = 0}

\* Dropping an element of occupantions frees its allocation: what a step releases.
Dropped(i, before, after) ==
    [d \in Devices |-> released[i][d]
                          + (IF d \in Range(before) \ Range(after) THEN 1 ELSE 0)]

\* The monitor holds occp.read() for the whole `for` statement.
ReadLocked(i) == mpc[i] = "scan" /\ mscan[i] >= 1

(***************************************************************************)
(* The inputs.                                                             *)
(***************************************************************************)
Alphabet == {"a", "é", "{", "}"}

RECURSIVE SeqsUpTo(_, _)
SeqsUpTo(S, n) ==
    IF n = 0 THEN {<< >>}
    ELSE LET shorter == SeqsUpTo(S, n - 1)
         IN  shorter \cup {Append(t, c) : t \in {u \in shorter : Len(u) = n - 1}, c \in S}

Tokens ==
    SeqsUpTo(Alphabet, MaxLen)
        \cup {<<"a", "{", "}", "b", "{", "{", "c">>,
              <<"r", "u", "n">>,
              <<"{", "{", "}", "}", "{", "}">>}

Substitutions == {<< >>, <<"X">>, <<"0", ",", "1">>, <<"{">>}

run == <<"r", "u", "n">>

Commands == {<<run>>,
             <<run, <<"-", "{", "}">>>>,
             <<run, <<"{", "{", "}", "}">>>>,
             <<run, <<"{", "}", "{">>>>}

ExitResults == {[ok |-> TRUE, status |-> 0], [ok |-> TRUE, status |-> 1],
                [ok |-> FALSE, status |-> 0]}

(***************************************************************************)
(* Leaving main: the locals are dropped and the process exits, which ends  *)
(* its threads and frees what the process still holds.                     *)
(***************************************************************************)
\* Exit that leaves the allocations of the process behind.
Exit_leak(i, res, why) ==
    /\ pc' = [pc EXCEPT ![i] = "done"]
    /\ outcome' = [outcome EXCEPT ![i] = res]
    /\ ended_by' = [ended_by EXCEPT ![i] = why]
    /\ flock' = IF flock = i THEN 0 ELSE flock
    /\ UNCHANGED <<occupantions, released>>
    /\ mpc' = [mpc EXCEPT ![i] = IF @ \in {"off", "ended"} THEN @ ELSE "killed"]
    /\ mscan' = [mscan EXCEPT ![i] = 0]
    /\ device_used' = [device_used EXCEPT ![i] = << >>]
    /\ proc_exit' = [proc_exit EXCEPT ![i] = << >>]

\* Exit that leaves the lock file locked.
Exit_locked(i, res, why) ==
    /\ pc' = [pc EXCEPT ![i] = "done"]
    /\ outcome' = [outcome EXCEPT ![i] = res]
    /\ ended_by' = [ended_by EXCEPT ![i] = why]
    /\ UNCHANGED flock
    /\ occupantions' = [occupantions EXCEPT ![i] = << >>]
    /\ released' = [released EXCEPT ![i] = Dropped(i, occupantions[i], << >>)]
    /\ mpc' = [mpc EXCEPT ![i] = IF @ \in {"off", "ended"} THEN @ ELSE "killed"]
    /\ mscan' = [mscan EXCEPT ![i] = 0]
    /\ device_used' = [device_used EXCEPT ![i] = << >>]
    /\ proc_exit' = [proc_exit EXCEPT ![i] = << >>]

Exit(i, res, why) ==
    /\ pc' = [pc EXCEPT ![i] = "done"]
    /\ outcome' = [outcome EXCEPT ![i] = res]
    /\ ended_by' = [ended_by EXCEPT ![i] = why]
    /\ flock' = IF flock = i THEN 0 ELSE flock
    /\ occupantions' = [occupantions EXCEPT ![i] = << >>]
    /\ released' = [released EXCEPT ![i] = Dropped(i, occupantions[i], << >>)]
    /\ mpc' = [mpc EXCEPT ![i] = IF @ \in {"off", "ended"} THEN @ ELSE "killed"]
    /\ mscan' = [mscan EXCEPT ![i] = 0]
    /\ device_used' = [device_used EXCEPT ![i] = << >>]
    /\ proc_exit' = [proc_exit EXCEPT ![i] = << >>]

\* main.rs 112-130: every argument is expanded once with "" to validate it.
Prevalidate(i) ==
    /\ pc[i] = "start"
    /\ LET results == [k \in 1..Len(cmds[i]) |->
                           process_command_template(cmds[i][k], << >>)]
       IN  IF \E k \in 1..Len(cmds[i]) : ~results[k].ok
           THEN /\ Exit(i, "err", "template")
                /\ UNCHANGED has_template
           ELSE /\ has_template' = [has_template EXCEPT ![i] =
                        \E k \in 1..Len(cmds[i]) : results[k].template_count > 0]
                /\ pc' = [pc EXCEPT ![i] = "poll"]
                /\ UNCHANGED <<outcome, ended_by, flock, occupantions, released,
                               mpc, mscan, device_used, proc_exit>>
    /\ UNCHANGED <<fvars, wait_result>>
    /\ UNCHANGED <<tvars, cli, STOPPED, idle_gpu, compute, device_used_r, child,
                   final_cmd, env, idle_seen, sent, handled>>

\* PollCheck that does not read the flag.
PollCheck_ignore(i) ==
    /\ pc[i] = "poll"
    /\ pc' = [pc EXCEPT ![i] = "lock"]
    /\ UNCHANGED <<outcome, ended_by, flock, occupantions, released,
                   mpc, mscan, device_used, proc_exit>>
    /\ UNCHANGED <<fvars, wait_result>>
    /\ UNCHANGED <<tvars, cli, STOPPED, has_template, idle_gpu, compute,
                   device_used_r, child, final_cmd, env, idle_seen, sent, handled>>

\* main.rs 146 (and 167-170, 269 when the flag is set): the head of the poll loop.
PollCheck(i) ==
    /\ pc[i] = "poll"
    /\ IF STOPPED[i]
       THEN Exit(i, "ok", "cancel")
       ELSE /\ pc' = [pc EXCEPT ![i] = "lock"]
            /\ UNCHANGED <<outcome, ended_by, flock, occupantions, released,
                           mpc, mscan, device_used, proc_exit>>
    /\ UNCHANGED <<fvars, wait_result>>
    /\ UNCHANGED <<tvars, cli, STOPPED, has_template, idle_gpu, compute,
                   device_used_r, child, final_cmd, env, idle_seen, sent, handled>>

\* main.rs 147, lock.rs 103-106: file_lock.write() blocks until it is granted.
LockWrite(i) ==
    /\ pc[i] = "lock"
    /\ lock_exclusive(i)
    /\ flock' = i
    /\ pc' = [pc EXCEPT ![i] = "enumerate"]
    /\ UNCHANGED <<fvars, wait_result>>
    /\ UNCHANGED <<tvars, cli, STOPPED, outcome, has_template, idle_gpu,
                   occupantions, compute, mpc, mscan, device_used, device_used_r,
                   proc_exit, child, final_cmd, env, hist>>

\* Enumerate that sleeps with the guard alive.
Enumerate_keep(i) ==
    /\ pc[i] = "enumerate"
    /\ \/ /\ Exit(i, "err", "backend")
          /\ UNCHANGED <<idle_gpu, idle_seen>>
       \/ LET idle_gpus == get_idle_gpu
          IN  IF Len(idle_gpus) >= num[i]
              THEN /\ idle_gpu' = [idle_gpu EXCEPT ![i] =
                                      Some(Truncate(idle_gpus, num[i]))]
                   /\ idle_seen' = [idle_seen EXCEPT ![i] = IdleSet]
                   /\ pc' = [pc EXCEPT ![i] = "hold"]
                   /\ UNCHANGED <<outcome, ended_by, flock, occupantions,
                                  released, mpc, mscan, device_used, proc_exit>>
              ELSE /\ pc' = [pc EXCEPT ![i] = "sleep"]
                   /\ UNCHANGED <<flock, idle_gpu, idle_seen, outcome, ended_by,
                                  occupantions, released, mpc, mscan, device_used,
                                  proc_exit>>
    /\ UNCHANGED <<fvars, wait_result>>
    /\ UNCHANGED <<tvars, cli, STOPPED, has_template, compute, device_used_r,
                   child, final_cmd, env, sent, handled>>

\* main.rs 148-162: enumerate under the lock, then claim or give the lock back.
Enumerate(i) ==
    /\ pc[i] = "enumerate"
    /\ \/ /\ Exit(i, "err", "backend")
          /\ UNCHANGED <<idle_gpu, idle_seen>>
       \/ LET idle_gpus == get_idle_gpu
          IN  IF Len(idle_gpus) >= num[i]
              THEN /\ idle_gpu' = [idle_gpu EXCEPT ![i] =
                                      Some(Truncate(idle_gpus, num[i]))]
                   /\ idle_seen' = [idle_seen EXCEPT ![i] = IdleSet]
                   /\ pc' = [pc EXCEPT ![i] = "hold"]
                   /\ UNCHANGED <<outcome, ended_by, flock, occupantions,
                                  released, mpc, mscan, device_used, proc_exit>>
              ELSE /\ flock' = IF flock = i THEN 0 ELSE flock
                   /\ pc' = [pc EXCEPT ![i] = "sleep"]
                   /\ UNCHANGED <<idle_gpu, idle_seen, outcome, ended_by,
                                  occupantions, released, mpc, mscan, device_used,
                                  proc_exit>>
    /\ UNCHANGED <<fvars, wait_result>>
    /\ UNCHANGED <<tvars, cli, STOPPED, has_template, compute, device_used_r,
                   child, final_cmd, env, sent, handled>>

\* main.rs 163
Sleep(i) ==
    /\ pc[i] = "sleep"
    /\ pc' = [pc EXCEPT ![i] = "poll"]
    /\ UNCHANGED <<fvars, wait_result>>
    /\ UNCHANGED <<tvars, cli, STOPPED, outcome, has_template, idle_gpu, flock,
                   occupantions, compute, mpc, mscan, device_used, device_used_r,
                   proc_exit, child, final_cmd, env, hist>>

\* main.rs 176-183: one iteration of the loop that allocates on each claimed device.
Hold(i) ==
    /\ pc[i] = "hold"
    /\ \/ /\ Exit(i, "err", "backend")
       \/ /\ occupantions' = [occupantions EXCEPT ![i] =
                 Append(@, idle_gpu[i].v[Len(@) + 1])]
          /\ pc' = [pc EXCEPT ![i] =
                 IF Len(occupantions[i]) + 1 = Len(idle_gpu[i].v)
                 THEN "unlock" ELSE "hold"]
          /\ UNCHANGED <<outcome, ended_by, flock, released, mpc, mscan,
                         device_used, proc_exit>>
    /\ UNCHANGED <<fvars, wait_result>>
    /\ UNCHANGED <<tvars, cli, STOPPED, has_template, idle_gpu, compute,
                   device_used_r, child, final_cmd, env, idle_seen, sent, handled>>

\* main.rs 185-192: drop the lock guard, start the monitor thread.
Unlock(i) ==
    /\ pc[i] = "unlock"
    /\ flock' = IF flock = i THEN 0 ELSE flock
    /\ mpc' = [mpc EXCEPT ![i] = "check"]
    /\ pc' = [pc EXCEPT ![i] = "launch"]
    /\ UNCHANGED <<fvars, wait_result>>
    /\ UNCHANGED <<tvars, cli, STOPPED, outcome, has_template, idle_gpu,
                   occupantions, compute, mscan, device_used, device_used_r,
                   proc_exit, child, final_cmd, env, hist>>

\* main.rs 214-248: expand the arguments, decide the environment, spawn the child.
Launch(i) ==
    /\ pc[i] = "launch"
    /\ LET str == gpu_list_str(idle_gpu[i].v)
           results == [k \in 1..Len(cmds[i]) |->
                           process_command_template(cmds[i][k], str)]
       IN  \/ /\ \E k \in 1..Len(cmds[i]) : ~results[k].ok
              /\ Exit(i, "err", "template")
              /\ UNCHANGED <<final_cmd, env, child>>
           \/ /\ \A k \in 1..Len(cmds[i]) : results[k].ok
              /\ Exit(i, "err", "spawn")
              /\ UNCHANGED <<final_cmd, env, child>>
           \/ /\ \A k \in 1..Len(cmds[i]) : results[k].ok
              /\ final_cmd' = [final_cmd EXCEPT ![i] =
                     [k \in 1..Len(cmds[i]) |-> results[k].command]]
              /\ env' = [env EXCEPT ![i] =
                     IF ~has_template[i] \/ force_env[i] THEN Some(str) ELSE None]
              /\ child' = [child EXCEPT ![i] = "running"]
              /\ pc' = [pc EXCEPT ![i] = "loop"]
              /\ UNCHANGED <<outcome, ended_by, flock, occupantions, released,
                             mpc, mscan, device_used, proc_exit>>
    /\ UNCHANGED <<fvars, wait_result>>
    /\ UNCHANGED <<tvars, cli, STOPPED, has_template, idle_gpu, compute,
                   device_used_r, idle_seen, sent, handled>>

\* main.rs 251: the head of the supervisor loop.
LoopCheck(i) ==
    /\ pc[i] = "loop"
    /\ IF STOPPED[i]
       THEN Exit(i, "ok", "cancel")
       ELSE /\ pc' = [pc EXCEPT ![i] = "select"]
            /\ UNCHANGED <<outcome, ended_by, flock, occupantions, released,
                           mpc, mscan, device_used, proc_exit>>
    /\ UNCHANGED <<fvars, wait_result>>
    /\ UNCHANGED <<tvars, cli, STOPPED, has_template, idle_gpu, compute,
                   device_used_r, child, final_cmd, env, idle_seen, sent, handled>>

\* RecvDeviceUsed that keeps selecting on the disconnected channel.
RecvDeviceUsed_busy(i) ==
    /\ pc[i] = "select"
    /\ device_used_r[i]
    /\ \/ /\ device_used[i] /= << >>
          /\ Head(device_used[i]).ok
          /\ ~ReadLocked(i)
          /\ LET used_index == Head(device_used[i]).v
             IN  /\ occupantions' = [occupantions EXCEPT ![i] = Retain(@, used_index)]
                 /\ released' = [released EXCEPT ![i] =
                        Dropped(i, occupantions[i], Retain(occupantions[i], used_index))]
          /\ device_used' = [device_used EXCEPT ![i] = Tail(@)]
          /\ handled' = [handled EXCEPT ![i] = TRUE]
          /\ pc' = [pc EXCEPT ![i] = "loop"]
          /\ UNCHANGED <<outcome, ended_by, flock, mpc, mscan, device_used_r,
                         proc_exit>>
       \/ /\ device_used[i] /= << >>
          /\ ~Head(device_used[i]).ok
          /\ Exit(i, "err", "monitor")
          /\ UNCHANGED <<handled, device_used_r>>
       \/ /\ device_used[i] = << >>
          /\ mpc[i] = "ended"
          /\ pc' = [pc EXCEPT ![i] = "loop"]
          /\ UNCHANGED <<outcome, ended_by, flock, occupantions, released, mpc,
                         mscan, device_used, device_used_r, handled, proc_exit>>
    /\ UNCHANGED <<fvars, wait_result>>
    /\ UNCHANGED <<tvars, cli, STOPPED, has_template, idle_gpu, compute, child,
                   final_cmd, env, idle_seen, sent>>

\* main.rs 253-260: the select arm on the monitor's channel.
RecvDeviceUsed(i) ==
    /\ pc[i] = "select"
    /\ device_used_r[i]
    /\ \/ /\ device_used[i] /= << >>
          /\ Head(device_used[i]).ok
          /\ ~ReadLocked(i)
          /\ LET used_index == Head(device_used[i]).v
             IN  /\ occupantions' = [occupantions EXCEPT ![i] = Retain(@, used_index)]
                 /\ released' = [released EXCEPT ![i] =
                        Dropped(i, occupantions[i], Retain(occupantions[i], used_index))]
          /\ device_used' = [device_used EXCEPT ![i] = Tail(@)]
          /\ handled' = [handled EXCEPT ![i] = TRUE]
          /\ pc' = [pc EXCEPT ![i] = "loop"]
          /\ UNCHANGED <<outcome, ended_by, flock, mpc, mscan, device_used_r,
                         proc_exit>>
       \/ /\ device_used[i] /= << >>
          /\ ~Head(device_used[i]).ok
          /\ Exit(i, "err", "monitor")
          /\ UNCHANGED <<handled, device_used_r>>
       \/ /\ device_used[i] = << >>
          /\ mpc[i] = "ended"
          /\ device_used_r' = [device_used_r EXCEPT ![i] = FALSE]
          /\ pc' = [pc EXCEPT ![i] = "loop"]
          /\ UNCHANGED <<outcome, ended_by, flock, occupantions, released, mpc,
                         mscan, device_used, handled, proc_exit>>
    /\ UNCHANGED <<fvars, wait_result>>
    /\ UNCHANGED <<tvars, cli, STOPPED, has_template, idle_gpu, compute, child,
                   final_cmd, env, idle_seen, sent>>

\* main.rs 261-265: the select arm on the child-wait channel.
RecvProcExit(i) ==
    /\ pc[i] = "select"
    /\ proc_exit[i] /= << >>
    /\ IF Head(proc_exit[i]).ok
       THEN Exit(i, "ok", "exit")
       ELSE Exit(i, "err", "wait")
    /\ UNCHANGED <<fvars, wait_result>>
    /\ UNCHANGED <<tvars, cli, STOPPED, has_template, idle_gpu, compute,
                   device_used_r, child, final_cmd, env, idle_seen, sent, handled>>

(***************************************************************************)
(* The monitor thread, main.rs 192-212.                                    *)
(***************************************************************************)
\* main.rs 193: `while occp.read().len() > 0`; the thread ends when it is false,
\* which drops device_used_s and disconnects the channel.
MonitorCheck(i) ==
    /\ mpc[i] = "check"
    /\ Len(occupantions[i]) > 0 => CanScan(i)
    /\ mpc' = [mpc EXCEPT ![i] = IF Len(occupantions[i]) > 0 THEN "scan" ELSE "ended"]
    /\ UNCHANGED <<fvars, wait_result>>
    /\ UNCHANGED <<tvars, cli, STOPPED, pc, outcome, has_template, idle_gpu,
                   flock, occupantions, compute, mscan, device_used,
                   device_used_r, proc_exit, child, final_cmd, env, hist>>

\* MonitorProbe that reports a device only from the third compute process on.
MonitorProbe_late(i) ==
    /\ mpc[i] = "scan"
    /\ LET j == IF mscan[i] = 0 THEN 1 ELSE mscan[i]
           n == Len(occupantions[i])
           next_mpc == IF j >= n THEN "sleep" ELSE "scan"
           next_scan == IF j >= n THEN 0 ELSE j + 1
       IN  IF j > n
           THEN /\ mpc' = [mpc EXCEPT ![i] = "sleep"]
                /\ mscan' = [mscan EXCEPT ![i] = 0]
                /\ UNCHANGED <<device_used, sent>>
           ELSE LET d == occupantions[i][j]
                IN  \/ /\ device_used' = [device_used EXCEPT ![i] =
                              Append(@, [ok |-> FALSE, v |-> 0])]
                       /\ mpc' = [mpc EXCEPT ![i] = "ended"]
                       /\ mscan' = [mscan EXCEPT ![i] = 0]
                       /\ UNCHANGED sent
                    \/ /\ running_compute_processes_count(d) > 2
                       /\ device_used' = [device_used EXCEPT ![i] =
                              Append(@, [ok |-> TRUE, v |-> d])]
                       /\ sent' = [sent EXCEPT ![i][d] = @ + 1]
                       /\ mpc' = [mpc EXCEPT ![i] = next_mpc]
                       /\ mscan' = [mscan EXCEPT ![i] = next_scan]
                    \/ /\ ~(running_compute_processes_count(d) > 2)
                       /\ mpc' = [mpc EXCEPT ![i] = next_mpc]
                       /\ mscan' = [mscan EXCEPT ![i] = next_scan]
                       /\ UNCHANGED <<device_used, sent>>
    /\ UNCHANGED <<fvars, wait_result>>
    /\ UNCHANGED <<tvars, cli, STOPPED, pc, outcome, has_template, idle_gpu,
                   flock, occupantions, compute, device_used_r, proc_exit, child,
                   final_cmd, env, idle_seen, released, handled, ended_by>>

\* main.rs 194-209: one iteration of `for (i, _) in occp.read().iter()`; the
\* first one takes the read lock, the last one gives it back.
MonitorProbe(i) ==
    /\ mpc[i] = "scan"
    /\ LET j == IF mscan[i] = 0 THEN 1 ELSE mscan[i]
           n == Len(occupantions[i])
           next_mpc == IF j >= n THEN "sleep" ELSE "scan"
           next_scan == IF j >= n THEN 0 ELSE j + 1
       IN  IF j > n
           THEN /\ mpc' = [mpc EXCEPT ![i] = "sleep"]
                /\ mscan' = [mscan EXCEPT ![i] = 0]
                /\ UNCHANGED <<device_used, sent>>
           ELSE LET d == occupantions[i][j]
                IN  \/ /\ device_used' = [device_used EXCEPT ![i] =
                              Append(@, [ok |-> FALSE, v |-> 0])]
                       /\ mpc' = [mpc EXCEPT ![i] = "ended"]
                       /\ mscan' = [mscan EXCEPT ![i] = 0]
                       /\ UNCHANGED sent
                    \/ /\ running_compute_processes_count(d) > 1
                       /\ device_used' = [device_used EXCEPT ![i] =
                              Append(@, [ok |-> TRUE, v |-> d])]
                       /\ sent' = [sent EXCEPT ![i][d] = @ + 1]
                       /\ mpc' = [mpc EXCEPT ![i] = next_mpc]
                       /\ mscan' = [mscan EXCEPT ![i] = next_scan]
                    \/ /\ ~(running_compute_processes_count(d) > 1)
                       /\ mpc' = [mpc EXCEPT ![i] = next_mpc]
                       /\ mscan' = [mscan EXCEPT ![i] = next_scan]
                       /\ UNCHANGED <<device_used, sent>>
    /\ UNCHANGED <<fvars, wait_result>>
    /\ UNCHANGED <<tvars, cli, STOPPED, pc, outcome, has_template, idle_gpu,
                   flock, occupantions, compute, device_used_r, proc_exit, child,
                   final_cmd, env, idle_seen, released, handled, ended_by>>

\* main.rs 210
MonitorSleep(i) ==
    /\ mpc[i] = "sleep"
    /\ mpc' = [mpc EXCEPT ![i] = "check"]
    /\ UNCHANGED <<fvars, wait_result>>
    /\ UNCHANGED <<tvars, cli, STOPPED, pc, outcome, has_template, idle_gpu,
                   flock, occupantions, compute, mscan, device_used,
                   device_used_r, proc_exit, child, final_cmd, env, hist>>

(***************************************************************************)
(* What happens around the process.                                        *)
(***************************************************************************)
\* main.rs 246-248: the child ends, cmd.wait() returns and its result is sent.
ProcExit(i) ==
    /\ child[i] = "running"
    /\ pc[i] /= "done"
    /\ child' = [child EXCEPT ![i] = "exited"]
    /\ \E res \in ExitResults :
           /\ wait_result' = [wait_result EXCEPT ![i] = Some(res)]
           /\ proc_exit' = [proc_exit EXCEPT ![i] = Append(@, res)]
    /\ UNCHANGED fvars
    /\ UNCHANGED <<tvars, cli, STOPPED, pc, outcome, has_template, idle_gpu,
                   flock, occupantions, compute, mpc, mscan, device_used,
                   device_used_r, final_cmd, env, hist>>

\* main.rs 85-88: the Ctrl+C handler.
Cancel(i) ==
    /\ pc[i] /= "done"
    /\ ~STOPPED[i]
    /\ STOPPED' = [STOPPED EXCEPT ![i] = TRUE]
    /\ UNCHANGED <<fvars, wait_result>>
    /\ UNCHANGED <<tvars, cli, pc, outcome, has_template, idle_gpu, flock,
                   occupantions, compute, mpc, mscan, device_used, device_used_r,
                   proc_exit, child, final_cmd, env, hist>>

\* Some process may still read the compute process count of device d: it has
\* yet to enumerate, or d is in its ClaimSet and its monitor reads it.
Observed(d) ==
    \E i \in Instances :
        \/ pc[i] \in {"start", "poll", "lock", "enumerate", "sleep"}
        \/ pc[i] /= "done" /\ idle_gpu[i].some /\ d \in Range(idle_gpu[i].v)

\* A compute process that is not a hold of the tool (a child, or anything else
\* on the host) appears on device d, as main.rs 70 and 197 would count it.
ComputeStart(d) ==
    /\ ~compute[d]
    /\ Observed(d)
    /\ compute' = [compute EXCEPT ![d] = TRUE]
    /\ UNCHANGED <<fvars, wait_result>>
    /\ UNCHANGED <<tvars, cli, STOPPED, pc, outcome, has_template, idle_gpu,
                   flock, occupantions, mpc, mscan, device_used, device_used_r,
                   proc_exit, child, final_cmd, env, hist>>

ComputeStop(d) ==
    /\ compute[d]
    /\ Observed(d)
    /\ compute' = [compute EXCEPT ![d] = FALSE]
    /\ UNCHANGED <<fvars, wait_result>>
    /\ UNCHANGED <<tvars, cli, STOPPED, pc, outcome, has_template, idle_gpu,
                   flock, occupantions, mpc, mscan, device_used, device_used_r,
                   proc_exit, child, final_cmd, env, hist>>

\* command.rs 21-107 applied to one token and one substitution string.
Expand ==
    /\ ~t_result.some
    /\ t_result' = Some(process_command_template(t_command, t_template))
    /\ UNCHANGED <<fvars, wait_result>>
    /\ UNCHANGED <<t_command, t_template, cli, STOPPED, pc, outcome,
                   has_template, idle_gpu, flock, occupantions, compute, mpc,
                   mscan, device_used, device_used_r, proc_exit, child,
                   final_cmd, env, hist>>

(***************************************************************************)
(* The lock file, lock.rs 43-96.  A file is named by who created it: 0 is  *)
(* a file left by an earlier run.  Nothing removes the file.  The callers  *)
(* are processes of the users of the host, each with its umask: a file     *)
(* created with a umask that masks the read bits can be opened by its      *)
(* owner alone until its permissions are set.                              *)
(***************************************************************************)
Preexisting == 0

Users == 1..NumUsers

Credentials == [uid : Users, umask_private : BOOLEAN]

\* File::open(p) by caller c finds a file it is allowed to read.
Readable(c) ==
    /\ lock_file.some
    /\ \/ world_readable
       \/ lock_file.v /= Preexisting /\ cred[lock_file.v].uid = cred[c].uid

\* lock.rs 85-94: FileRWLock::new reaches its call of open_or_create_file.
FileRWLockNew(c) ==
    /\ fpc[c] = "idle"
    /\ fpc' = [fpc EXCEPT ![c] = "open"]
    /\ UNCHANGED <<lock_file, world_readable, cred, file, created>>
    /\ UNCHANGED <<tvars, cli, STOPPED, pc, outcome, has_template, idle_gpu,
                   flock, occupantions, compute, mpc, mscan, device_used,
                   device_used_r, proc_exit, child, wait_result, final_cmd, env,
                   hist>>

\* lock.rs 47-56: File::open(p); NotFound leads to the create step, any other
\* error is returned.
FileOpen(c) ==
    /\ fpc[c] = "open"
    /\ IF Readable(c)
       THEN /\ file' = [file EXCEPT ![c] = lock_file]
            /\ fpc' = [fpc EXCEPT ![c] = "ok"]
       ELSE /\ fpc' = [fpc EXCEPT ![c] = IF lock_file.some THEN "err" ELSE "create"]
            /\ UNCHANGED file
    /\ UNCHANGED <<lock_file, world_readable, cred, created>>
    /\ UNCHANGED <<tvars, cli, STOPPED, pc, outcome, has_template, idle_gpu,
                   flock, occupantions, compute, mpc, mscan, device_used,
                   device_used_r, proc_exit, child, wait_result, final_cmd, env,
                   hist>>

\* lock.rs 58-59, 69-76: File::create_new(p) creates the file atomically, with
\* the mode the umask leaves, or reports AlreadyExists, which leads to the
\* second open.
FileCreateNew(c) ==
    /\ fpc[c] = "create"
    /\ IF ~lock_file.some
       THEN /\ lock_file' = Some(c)
            /\ world_readable' = ~cred[c].umask_private
            /\ created' = [created EXCEPT ![c] = TRUE]
            /\ file' = [file EXCEPT ![c] = Some(c)]
            /\ fpc' = [fpc EXCEPT ![c] = "chmod"]
       ELSE /\ fpc' = [fpc EXCEPT ![c] = "reopen"]
            /\ UNCHANGED <<lock_file, world_readable, created, file>>
    /\ UNCHANGED cred
    /\ UNCHANGED <<tvars, cli, STOPPED, pc, outcome, has_template, idle_gpu,
                   flock, occupantions, compute, mpc, mscan, device_used,
                   device_used_r, proc_exit, child, wait_result, final_cmd, env,
                   hist>>

\* lock.rs 60-67: the creator makes the file accessible to everybody and
\* returns it.
FileSetPermissions(c) ==
    /\ fpc[c] = "chmod"
    /\ world_readable' = TRUE
    /\ fpc' = [fpc EXCEPT ![c] = "ok"]
    /\ UNCHANGED <<lock_file, cred, file, created>>
    /\ UNCHANGED <<tvars, cli, STOPPED, pc, outcome, has_template, idle_gpu,
                   flock, occupantions, compute, mpc, mscan, device_used,
                   device_used_r, proc_exit, child, wait_result, final_cmd, env,
                   hist>>

\* lock.rs 72: the second File::open(p), whose result is returned as it is.
FileReopen(c) ==
    /\ fpc[c] = "reopen"
    /\ IF Readable(c)
       THEN /\ file' = [file EXCEPT ![c] = lock_file]
            /\ fpc' = [fpc EXCEPT ![c] = "ok"]
       ELSE /\ fpc' = [fpc EXCEPT ![c] = "err"]
            /\ UNCHANGED file
    /\ UNCHANGED <<lock_file, world_readable, cred, created>>
    /\ UNCHANGED <<tvars, cli, STOPPED, pc, outcome, has_template, idle_gpu,
                   flock, occupantions, compute, mpc, mscan, device_used,
                   device_used_r, proc_exit, child, wait_result, final_cmd, env,
                   hist>>

\* Every caller has its handle of the lock file: main.rs 143 is behind.
LockFileOpened ==
    /\ lock_file = Some(Preexisting)
    /\ world_readable = TRUE
    /\ cred = [c \in Callers |-> [uid |-> 1, umask_private |-> FALSE]]
    /\ fpc = [c \in Callers |-> "ok"]
    /\ file = [c \in Callers |-> Some(Preexisting)]
    /\ created = [c \in Callers |-> FALSE]

(***************************************************************************)
(* Specifications.                                                         *)
(***************************************************************************)
\* The state after the Cli is parsed, with the given processes started.
ProcessInit(started) ==
    /\ STOPPED = [i \in Instances |-> FALSE]
    /\ pc = [i \in Instances |-> IF i \in started THEN "start" ELSE "done"]
    /\ outcome = [i \in Instances |-> IF i \in started THEN "running" ELSE "ok"]
    /\ has_template = [i \in Instances |-> FALSE]
    /\ idle_gpu = [i \in Instances |-> None]
    /\ flock = 0
    /\ occupantions = [i \in Instances |-> << >>]
    /\ compute = [d \in Devices |-> FALSE]
    /\ mpc = [i \in Instances |-> "off"]
    /\ mscan = [i \in Instances |-> 0]
    /\ device_used = [i \in Instances |-> << >>]
    /\ device_used_r = [i \in Instances |-> TRUE]
    /\ proc_exit = [i \in Instances |-> << >>]
    /\ child = [i \in Instances |-> "none"]
    /\ wait_result = [i \in Instances |-> None]
    /\ final_cmd = [i \in Instances |-> << >>]
    /\ env = [i \in Instances |-> None]
    /\ idle_seen = [i \in Instances |-> {}]
    /\ sent = [i \in Instances |-> [d \in Devices |-> 0]]
    /\ released = [i \in Instances |-> [d \in Devices |-> 0]]
    /\ handled = [i \in Instances |-> FALSE]
    /\ ended_by = [i \in Instances |-> "none"]

NoTemplateRun ==
    /\ t_command = << >>
    /\ t_template = << >>
    /\ t_result = None

\* The process that runs when one invocation is looked at alone.
Runners == {1}

\* One invocation of a plain command.
Init ==
    /\ NoTemplateRun
    /\ num \in [Instances -> 1..MaxNum]
    /\ force_env = [i \in Instances |-> FALSE]
    /\ cmds = [i \in Instances |-> <<run>>]
    /\ \A i \in Instances \ Runners : num[i] = 1
    /\ ProcessInit(Runners)
    /\ LockFileOpened

MainThread(i) ==
    \/ Prevalidate(i)
    \/ PollCheck(i)
    \/ LockWrite(i)
    \/ Enumerate(i)
    \/ Sleep(i)
    \/ Hold(i)
    \/ Unlock(i)
    \/ Launch(i)
    \/ LoopCheck(i)
    \/ RecvDeviceUsed(i)
    \/ RecvProcExit(i)

MonitorThread(i) ==
    \/ MonitorCheck(i)
    \/ MonitorProbe(i)
    \/ MonitorSleep(i)

Next ==
    \/ \E i \in Instances : Prevalidate(i)
    \/ \E i \in Instances : PollCheck(i)
    \/ \E i \in Instances : LockWrite(i)
    \/ \E i \in Instances : Enumerate(i)
    \/ \E i \in Instances : Sleep(i)
    \/ \E i \in Instances : Hold(i)
    \/ \E i \in Instances : Unlock(i)
    \/ \E i \in Instances : Launch(i)
    \/ \E i \in Instances : LoopCheck(i)
    \/ \E i \in Instances : RecvDeviceUsed(i)
    \/ \E i \in Instances : RecvProcExit(i)
    \/ \E i \in Instances : MonitorCheck(i)
    \/ \E i \in Instances : MonitorProbe(i)
    \/ \E i \in Instances : MonitorSleep(i)
    \/ \E i \in Instances : ProcExit(i)
    \/ \E i \in Instances : Cancel(i)
    \/ \E d \in Devices : ComputeStart(d)
    \/ \E d \in Devices : ComputeStop(d)

Spec == Init /\ [][Next]_vars

\* The same with the threads of the process scheduled fairly; the child, the
\* Ctrl+C and the other compute processes owe nothing.
FairSpec ==
    /\ Init
    /\ [][Next]_vars
    /\ \A i \in Instances : WF_vars(MainThread(i)) /\ WF_vars(MonitorThread(i))

\* One invocation, over every command line and flag of the model.
CliInit ==
    /\ NoTemplateRun
    /\ num \in [Instances -> 1..MaxNum]
    /\ force_env \in [Instances -> BOOLEAN]
    /\ cmds \in [Instances -> Commands]
    /\ \A i \in Instances \ Runners : num[i] = 1 /\ ~force_env[i] /\ cmds[i] = <<run>>
    /\ ProcessInit(Runners)
    /\ LockFileOpened

CliSpec == CliInit /\ [][Next]_vars

\* Two concurrent invocations of a plain command, the one that asks for fewer
\* devices named first, while their children run and before their monitors are
\* first scheduled: they end by a backend error or by Ctrl+C.
ConcurrentInit ==
    /\ NoTemplateRun
    /\ num \in [Instances -> 1..MaxNum]
    /\ force_env = [i \in Instances |-> FALSE]
    /\ cmds = [i \in Instances |-> <<run>>]
    /\ num[1] <= num[2]
    /\ \A i \in Instances \ {1, 2} : num[i] = 1
    /\ ProcessInit({1, 2})
    /\ LockFileOpened

ConcurrentNext ==
    \/ \E i \in Instances : Prevalidate(i)
    \/ \E i \in Instances : PollCheck(i)
    \/ \E i \in Instances : LockWrite(i)
    \/ \E i \in Instances : Enumerate(i)
    \/ \E i \in Instances : Sleep(i)
    \/ \E i \in Instances : Hold(i)
    \/ \E i \in Instances : Unlock(i)
    \/ \E i \in Instances : Launch(i)
    \/ \E i \in Instances : LoopCheck(i)
    \/ \E i \in Instances : Cancel(i)
    \/ \E d \in Devices : ComputeStart(d)
    \/ \E d \in Devices : ComputeStop(d)

ConcurrentSpec == ConcurrentInit /\ [][ConcurrentNext]_vars

\* The template engine alone, over every token and substitution of the model.
TemplateInit ==
    /\ t_command \in Tokens
    /\ t_template \in Substitutions
    /\ t_result = None
    /\ num = [i \in Instances |-> 1]
    /\ force_env = [i \in Instances |-> FALSE]
    /\ cmds = [i \in Instances |-> <<run>>]
    /\ ProcessInit({})
    /\ LockFileOpened

TemplateNext == Expand

\* The processes of several invocations open the lock file, each from the
\* moment it gets there; the file is absent, or left by an earlier run.
LockFileInit ==
    /\ NoTemplateRun
    /\ num = [i \in Instances |-> 1]
    /\ force_env = [i \in Instances |-> FALSE]
    /\ cmds = [i \in Instances |-> <<run>>]
    /\ ProcessInit({})
    /\ lock_file \in {None, Some(Preexisting)}
    /\ world_readable = TRUE
    /\ cred \in [Callers -> Credentials]
    /\ fpc = [c \in Callers |-> "idle"]
    /\ file = [c \in Callers |-> None]
    /\ created = [c \in Callers |-> FALSE]

LockFileNext ==
    \/ \E c \in Callers : FileRWLockNew(c)
    \/ \E c \in Callers : FileOpen(c)
    \/ \E c \in Callers : FileCreateNew(c)
    \/ \E c \in Callers : FileSetPermissions(c)
    \/ \E c \in Callers : FileReopen(c)

LockFileSpec == LockFileInit /\ [][LockFileNext]_vars

TemplateSpec == TemplateInit /\ [][TemplateNext]_vars

(***************************************************************************)
(* The template engine as section 4.1 of the specification describes it:   *)
(* spans are maximal runs of characters, whatever their encoded length.    *)
(***************************************************************************)
RECURSIVE SpanEnd(_, _)
\* The last position of the run of one kind that starts at position k.
SpanEnd(token, k) ==
    IF k < Len(token) /\ IsBracketChar(token[k + 1]) = IsBracketChar(token[k])
    THEN SpanEnd(token, k + 1)
    ELSE k

RECURSIVE SpansFrom(_, _)
SpansFrom(token, k) ==
    IF k > Len(token) THEN << >>
    ELSE LET e == SpanEnd(token, k)
         IN  <<[bracket |-> IsBracketChar(token[k]), text |-> SubSeq(token, k, e)]>>
                 \o SpansFrom(token, e + 1)

Spans(token) == SpansFrom(token, 1)

LiteralSpans == {<<"{">>, <<"}">>, <<"}", "{">>}

MarkerChunks == {<<"{", "}">>, <<"{", "{">>, <<"}", "}">>}

ChunkAt(text, n) == SubSeq(text, 2 * n - 1, Min(2 * n, Len(text)))

ChunkCount(text) == (Len(text) + 1) \div 2

WellFormedSpan(sp) ==
    \/ ~sp.bracket
    \/ sp.text \in LiteralSpans
    \/ \A n \in 1..ChunkCount(sp.text) : ChunkAt(sp.text, n) \in MarkerChunks

WellFormed(token) ==
    \A k \in 1..Len(Spans(token)) : WellFormedSpan(Spans(token)[k])

RECURSIVE ExpandChunks(_, _, _)
ExpandChunks(text, n, subst) ==
    IF n > ChunkCount(text) THEN << >>
    ELSE (IF ChunkAt(text, n) = <<"{", "}">> THEN subst
          ELSE IF ChunkAt(text, n) = <<"{", "{">> THEN <<"{">>
          ELSE <<"}">>)
         \o ExpandChunks(text, n + 1, subst)

ExpandSpan(sp, subst) ==
    IF ~sp.bracket \/ sp.text \in LiteralSpans THEN sp.text
    ELSE ExpandChunks(sp.text, 1, subst)

RECURSIVE ExpandSpans(_, _, _)
ExpandSpans(spans, k, subst) ==
    IF k > Len(spans) THEN << >>
    ELSE ExpandSpan(spans[k], subst) \o ExpandSpans(spans, k + 1, subst)

Expansion(token, subst) == ExpandSpans(Spans(token), 1, subst)

\* How many chunks of the token's chunked bracket spans are in the set.
RECURSIVE ChunksIn(_, _, _)
ChunksIn(spans, k, chunks) ==
    IF k > Len(spans) THEN 0
    ELSE (IF spans[k].bracket /\ spans[k].text \notin LiteralSpans
          THEN Cardinality({n \in 1..ChunkCount(spans[k].text) :
                               ChunkAt(spans[k].text, n) \in chunks})
          ELSE 0)
         + ChunksIn(spans, k + 1, chunks)

SubstitutionChunks(token) == ChunksIn(Spans(token), 1, {<<"{", "}">>})

EscapeChunks(token) == ChunksIn(Spans(token), 1, {<<"{", "{">>, <<"}", "}">>})

Occurrences(str, c) == Cardinality({k \in 1..Len(str) : str[k] = c})

SingleByte(token) == \A k \in 1..Len(token) : len_utf8(token[k]) = 1

Expanded == t_result.some

Result == t_result.v

\* C4: for every token whose bracket spans are all well-formed, also with
\* characters of more than one byte, the expansion succeeds and is the token
\* with `{}` replaced by the substitution, `{{` by `{`, `}}` by `}`, and the
\* plain spans and the spans `{`, `}`, `}{` copied.
C4_ExpansionResult ==
    (Expanded /\ WellFormed(t_command))
        => /\ Result.ok
           /\ Result.command = Expansion(t_command, t_template)

\* C5: on success the substitution count (total_count) is the number of `{}`
\* chunks expanded and the marker count (template_count) the number of `{}`,
\* `{{` and `}}` chunks: the output is the input with each `{}` turned into the
\* substitution and each escape into one character, and on a token of
\* single-byte characters the counts are those of the token's chunks; a token
\* without `{` and `}` comes back unchanged with both counts zero.
C5_TemplateCounts ==
    (Expanded /\ Result.ok)
        => /\ Result.total_count <= Result.template_count
           /\ Len(Result.command)
                 = Len(t_command) - 2 * Result.template_count
                     + Result.total_count * Len(t_template)
                     + (Result.template_count - Result.total_count)
           /\ Occurrences(Result.command, "X")
                 = Result.total_count * Occurrences(t_template, "X")
           /\ SingleByte(t_command)
                 => /\ Result.total_count = SubstitutionChunks(t_command)
                    /\ Result.template_count
                          = SubstitutionChunks(t_command) + EscapeChunks(t_command)
           /\ (\A k \in 1..Len(t_command) : ~IsBracketChar(t_command[k]))
                 => /\ Result.command = t_command
                    /\ Result.total_count = 0
                    /\ Result.template_count = 0
           /\ t_command = <<"{", "}">>
                 => Result.command = t_template /\ Result.total_count = 1
           /\ t_command = <<"{", "{", "}", "}">>
                 => /\ Result.command = <<"{", "}">>
                    /\ Result.total_count = 0
                    /\ Result.template_count = 2

C5_Witness ==
    /\ Expanded
    /\ Result.ok
    /\ t_command = <<"{", "{", "}", "}", "{", "}">>
    /\ t_template = <<"X">>
    /\ Result.total_count = 1
    /\ Result.template_count = 3

Token6 == <<"a", "{", "}", "b", "{", "{", "c">>

\* C6 as claimed: expanding `a{}b{{c` fails for every substitution string.
C6_Original == (Expanded /\ t_command = Token6) => ~Result.ok

\* C6 as amended: expanding `a{}b{{c` succeeds for every substitution string S
\* and gives a S b { c, with one substitution and two markers: the `{{` before
\* the plain `c` is the escape of a literal `{`.
C6_EscapeBeforePlain ==
    (Expanded /\ t_command = Token6)
        => /\ Result.ok
           /\ Result.command = <<"a">> \o t_template \o <<"b", "{", "c">>
           /\ Result.total_count = 1
           /\ Result.template_count = 2

C6_Witness ==
    /\ Expanded
    /\ t_command = Token6
    /\ t_template = <<"0", ",", "1">>
    /\ Result.command = <<"a", "0", ",", "1", "b", "{", "c">>

Token7 == <<"{", "}", "{">>

\* C7 as claimed: expanding `{}{` succeeds and gives the substitution followed
\* by `{`, with substitution count 1.
C7_Original ==
    (Expanded /\ t_command = Token7)
        => /\ Result.ok
           /\ Result.command = t_template \o <<"{">>
           /\ Result.total_count = 1

\* C7 as amended: expanding `{}{` fails with the invalid bracket syntax error
\* for every substitution string: the three characters are one bracket span,
\* its second chunk is the single `{`, and no expanded string is returned.
C7_TrailingBraceRejected ==
    (Expanded /\ t_command = Token7)
        => /\ ~Result.ok
           /\ Result = InvalidBracketSyntax

C7_Witness ==
    /\ Expanded
    /\ t_command = Token7
    /\ t_template = <<"X">>
    /\ ~Result.ok

(***************************************************************************)
(* Admission, monitor and supervisor.                                      *)
(***************************************************************************)
ClaimSet(i) == Range(idle_gpu[i].v)

Held(i) == Range(occupantions[i])

\* The ClaimSet of a running process none of whose holds was released yet.
LiveClaim(i) ==
    /\ idle_gpu[i].some
    /\ pc[i] /= "done"
    /\ \A d \in Devices : released[i][d] = 0

\* C1: two processes that run the admission loop concurrently against the
\* same backend never hold the same device, and the ClaimSets they obtain are
\* disjoint, in every interleaving.
C1_MutualExclusion ==
    \A i, j \in Instances :
        i /= j => /\ Held(i) \cap Held(j) = {}
                  /\ (LiveClaim(i) /\ LiveClaim(j))
                        => ClaimSet(i) \cap ClaimSet(j) = {}

C1_Witness ==
    /\ LiveClaim(1) /\ LiveClaim(2)
    /\ pc[1] = "select" /\ pc[2] = "select"
    /\ Held(1) = ClaimSet(1) /\ Held(2) = ClaimSet(2)
    /\ idle_seen[1] \cap idle_seen[2] /= {}

C2_Selected ==
    \A i \in Instances :
        idle_gpu[i].some
            => LET c == idle_gpu[i].v
               IN  /\ Len(c) = num[i]
                   /\ \A k, l \in 1..Len(c) : k < l => c[k] < c[l]
                   /\ Range(c) \subseteq idle_seen[i]
                   /\ \A d \in idle_seen[i] \ Range(c) : \A e \in Range(c) : e < d
                   /\ (idle_seen[i] = {0, 1, 2} /\ num[i] = 2) => c = <<0, 1>>

\* C2: a ClaimSet has exactly the requested number of members, distinct, taken
\* from the idle set of the successful poll, the lowest identifiers of it in
\* ascending order; once created it never changes, also when holds are dropped.
C2_ClaimSelection ==
    /\ []C2_Selected
    /\ [][\A i \in Instances : idle_gpu[i].some => idle_gpu'[i] = idle_gpu[i]]_vars

C2_Witness ==
    /\ idle_gpu[1] = Some(<<0, 1>>)
    /\ idle_seen[1] = {0, 1, 2}
    /\ pc[1] = "select"
    /\ released[1][0] = 1
    /\ Held(1) = {1}

\* C3: the child gets the environment binding exactly when it is not the case
\* that some argument had a real `{}` substitution and the binding was not
\* forced; a command with escapes only gets the binding.
C3_EnvBinding ==
    \A i \in Instances :
        child[i] /= "none"
            => (env[i].some
                  <=> ~(/\ \E k \in 1..Len(cmds[i]) : SubstitutionChunks(cmds[i][k]) > 0
                        /\ ~force_env[i]))

C8_Step ==
    \A i \in Instances : \A d \in Devices :
        /\ sent'[i][d] > sent[i][d] => (d \in Held(i) /\ released[i][d] = 0)
        /\ (released'[i][d] > released[i][d] /\ pc'[i] /= "done")
              => /\ device_used[i] /= << >>
                 /\ Head(device_used[i]) = [ok |-> TRUE, v |-> d]

C9_Teardown ==
    \A i \in Instances :
        pc[i] = "done"
            => /\ occupantions[i] = << >>
               /\ flock /= i
               /\ (ended_by[i] = "exit" /\ ~handled[i])
                     => \A d \in Devices :
                            released[i][d] = IF d \in ClaimSet(i) THEN 1 ELSE 0

\* C9: once the child has exited the supervisor loop ends, and when it ends on
\* the exit event with no monitor event handled, every hold of the ClaimSet
\* has been released exactly once, none is left, and the lock is not held.
C9_SupervisorOnChildExit ==
    /\ []C9_Teardown
    /\ \A i \in Instances : (child[i] = "exited") ~> (pc[i] = "done")

C9_Witness ==
    /\ pc[1] = "done"
    /\ ended_by[1] = "exit"
    /\ ~handled[1]
    /\ idle_gpu[1] = Some(<<0, 1>>)
    /\ released[1] = [d \in Devices |-> IF d \in {0, 1} THEN 1 ELSE 0]

\* C10: once the cancellation flag is set while the supervisor is in its event
\* loop, the loop exits, whatever the child and the monitor do.
C10_CancellationResponse ==
    \A i \in Instances :
        (STOPPED[i] /\ pc[i] \in {"loop", "select"}) ~> (pc[i] = "done")

(***************************************************************************)
(* Cancellation, lock scope and failures of the admission loop.            *)
(***************************************************************************)
C11_Cancelled ==
    \A i \in Instances :
        (pc[i] = "done" /\ ended_by[i] = "cancel" /\ ~idle_gpu[i].some)
            => /\ outcome[i] = "ok"
               /\ occupantions[i] = << >>
               /\ \A d \in Devices : released[i][d] = 0
               /\ mpc[i] = "off"
               /\ child[i] = "none"
               /\ final_cmd[i] = << >>
               /\ ~env[i].some
               /\ flock /= i

C11_Step ==
    \A i \in Instances :
        /\ (pc[i] = "poll" /\ STOPPED[i] /\ pc'[i] /= "poll")
              => /\ pc'[i] = "done"
                 /\ ended_by'[i] = "cancel"
                 /\ ~idle_gpu'[i].some
        /\ pc[i] = "done"
              => /\ pc'[i] = "done"
                 /\ occupantions'[i] = occupantions[i]
                 /\ mpc'[i] = mpc[i]
                 /\ child'[i] = child[i]
                 /\ flock' /= i

\* C11: when the flag is seen set at the top of a poll iteration the admission
\* loop exits with no ClaimSet and main returns without an error; the run has
\* created no hold, started no monitor, spawned no child, does not hold the
\* lock, and does nothing more.
C11_SchedulerCancellation ==
    /\ []C11_Cancelled
    /\ [][C11_Step]_vars

C11_Witness ==
    /\ pc[1] = "done"
    /\ ended_by[1] = "cancel"
    /\ ~idle_gpu[1].some
    /\ outcome[1] = "ok"
    /\ pc[2] = "hold"
    /\ flock = 2

C14_Scope ==
    /\ flock \in {0} \cup Instances
    /\ \A i \in Instances : flock = i => pc[i] \in {"enumerate", "hold", "unlock"}

C14_Step ==
    \A i \in Instances :
        Len(occupantions'[i]) > Len(occupantions[i]) => (flock = i /\ flock' = i)

\* C14: a process holds the lock only between its acquisition and the drop of
\* the guard, that is while it enumerates, decides and creates its holds;
\* every hold is created with the lock held; the lock is not held during the
\* sleep of the poll interval, during the wait for the child, or after main
\* has returned, whatever way it returned.
C14_LockScope ==
    /\ []C14_Scope
    /\ [][C14_Step]_vars

C14_Witness ==
    /\ flock = 1
    /\ pc[1] = "hold"
    /\ idle_gpu[1] = Some(<<0, 1>>)
    /\ occupantions[1] = <<0>>

C16_Failed ==
    \A i \in Instances :
        (pc[i] = "done" /\ ended_by[i] = "backend")
            => /\ outcome[i] = "err"
               /\ flock /= i
               /\ occupantions[i] = << >>
               /\ child[i] = "none"
               /\ mpc[i] = "off"
               /\ final_cmd[i] = << >>

C16_Step ==
    \A i \in Instances :
        /\ (pc[i] \in {"enumerate", "hold"} /\ pc'[i] = "done")
              => /\ ended_by'[i] = "backend"
                 /\ flock = i
                 /\ \A d \in Devices :
                        released'[i][d] = IF d \in Held(i) THEN 1 ELSE 0
        /\ (pc[i] = "done" /\ ended_by[i] = "backend")
              => (pc'[i] = "done" /\ released'[i] = released[i])

\* C16: when the enumeration fails, or the hold of any chosen device fails,
\* also after some holds of the ClaimSet were created, main returns the error
\* without another poll iteration: the lock is released, every hold the run
\* created is released, once, and no monitor and no child were started.
C16_BackendFailure ==
    /\ []C16_Failed
    /\ [][C16_Step]_vars

C16_Witness ==
    /\ pc[1] = "done"
    /\ ended_by[1] = "backend"
    /\ idle_gpu[1] = Some(<<0, 1>>)
    /\ released[1][0] = 1
    /\ released[1][1] = 0
    /\ flock = 0

(***************************************************************************)
(* The supervisor and the monitor.                                         *)
(***************************************************************************)
\* C13: when the supervisor loop ends on the exit event, what main returns to
\* the caller of the tool tells a child that exited with status 0 from one
\* that exited with another status or whose wait failed.
C13_ExitStatusPropagation ==
    \A i \in Instances :
        (pc[i] = "done" /\ ended_by[i] \in {"exit", "wait"})
            => /\ wait_result[i].some
               /\ outcome[i] = "ok"
                     <=> (wait_result[i].v.ok /\ wait_result[i].v.status = 0)

\* C15: while the supervisor loop runs, a device of the ClaimSet that is still
\* held and on which the backend counts a compute process beyond the hold has
\* its hold released later on, unless the count falls back before the monitor
\* and the supervisor got there: the two threads do not block each other for
\* ever on the list of holds and the channel.
C15_PromptRelinquish ==
    \A i \in Runners : \A d \in Devices :
        (/\ pc[i] \in {"loop", "select"}
         /\ d \in Held(i)
         /\ running_compute_processes_count(d) > 1)
           ~> (d \notin Held(i) \/ ~(running_compute_processes_count(d) > 1))

C15_Witness ==
    /\ pc[1] = "loop"
    /\ idle_gpu[1] = Some(<<0, 1>>)
    /\ compute[1]
    /\ sent[1][1] = 1
    /\ released[1][1] = 1
    /\ Held(1) = {0}
    /\ ~STOPPED[1]

C18_Closed ==
    \A i \in Instances :
        ~device_used_r[i]
            => /\ mpc[i] = "ended"
               /\ device_used[i] = << >>
               /\ Held(i) = {}
               /\ \A d \in ClaimSet(i) : released[i][d] = 1

C18_Step ==
    \A i \in Instances :
        /\ ~device_used_r[i]
              => /\ ~device_used_r'[i]
                 /\ pc[i] = "select" => pc'[i] \in {"select", "done"}
        /\ (pc[i] = "select" /\ pc'[i] = "loop" /\ device_used[i] = << >>)
              => ~device_used_r'[i]

\* C18: once every device of the ClaimSet was reported and its hold removed
\* the monitor ends and its channel disconnects; the supervisor sees it once,
\* stops selecting on that channel and takes no further step on it, and still
\* ends when the child exits.
C18_MonitorTermination ==
    /\ []C18_Closed
    /\ [][C18_Step]_vars
    /\ \A i \in Runners :
           /\ (Held(i) = {} /\ pc[i] \in {"loop", "select"})
                 ~> (~device_used_r[i] \/ pc[i] = "done")
           /\ (~device_used_r[i] /\ child[i] = "exited") ~> (pc[i] = "done")

C18_Witness ==
    /\ pc[1] = "done"
    /\ ended_by[1] = "exit"
    /\ ~device_used_r[1]
    /\ mpc[1] = "ended"
    /\ idle_gpu[1] = Some(<<0, 1>>)
    /\ released[1][0] = 1
    /\ released[1][1] = 1

(***************************************************************************)
(* The template engine, continued.                                         *)
(***************************************************************************)
EscapePairs == {<<"{", "{">>, <<"}", "}">>}

EscapeOnly(token) ==
    /\ Len(token) % 2 = 0
    /\ \A n \in 1..ChunkCount(token) : ChunkAt(token, n) \in EscapePairs

Collapsed(token) == [n \in 1..(Len(token) \div 2) |-> token[2 * n]]

Doubled(str) == [k \in 1..(2 * Len(str)) |-> str[(k + 1) \div 2]]

\* C12: a token made of `{{` and `}}` pairs only expands, for every
\* substitution string, without a substitution (substitution count 0) to the
\* token with each pair collapsed to its brace: doubling every brace of the
\* output gives the token back.
C12_EscapeRoundTrip ==
    (Expanded /\ EscapeOnly(t_command))
        => /\ Result.ok
           /\ Result.total_count = 0
           /\ Result.template_count = Len(t_command) \div 2
           /\ Result.command = Collapsed(t_command)
           /\ Doubled(Result.command) = t_command

C12_Witness ==
    /\ Expanded
    /\ t_command = <<"}", "}", "{", "{">>
    /\ t_template = <<"X">>
    /\ Result.ok
    /\ Result.command = <<"}", "{">>

\* C17: a token with a bracket span that is not `{`, `}` or `}{` and has a
\* chunk other than `{}`, `{{`, `}}` fails with the invalid bracket syntax
\* error and returns no output, whatever characters the token contains.
C17_MalformedRejected ==
    (Expanded /\ ~WellFormed(t_command)) => Result = InvalidBracketSyntax

Ascending(c) ==
    \A k, l \in 1..Len(c) : k < l => c[k] < c[l]

\* The strings main substitutes: the empty one, and the list of a ClaimSet.
ClaimStrings ==
    {gpu_list_str(c) : c \in {g \in SeqsUpTo(Devices, MaxNum) :
                                  Len(g) >= 1 /\ Ascending(g)}}

\* C20: whether a token expands, and with which counts, does not depend on the
\* substitution string: the expansion with any other substitution, the empty
\* one of the pre-validation and the device list of any ClaimSet included,
\* fails when this one fails and succeeds with the same counts when this one
\* succeeds.
C20_SubstitutionIndependence ==
    Expanded
        => \A s \in Substitutions \cup ClaimStrings \cup {<< >>} :
               LET r == process_command_template(t_command, s)
               IN  /\ r.ok = Result.ok
                   /\ r.template_count = Result.template_count
                   /\ r.total_count = Result.total_count

C20_Witness ==
    /\ Expanded
    /\ t_command = <<"a", "{", "}", "{", "{">>
    /\ t_template = <<"0", ",", "1">>
    /\ Result.ok
    /\ Result.total_count = 1
    /\ Result.template_count = 2

(***************************************************************************)
(* The lock file.                                                          *)
(***************************************************************************)
Creators == {c \in Callers : created[c]}

\* C19: however the open, create and re-open steps of concurrent callers of
\* open_or_create_file interleave on a path where the file is absent, one
\* caller at most creates the file, exactly one once any caller has returned,
\* every caller that returns has a handle of that one file, and no caller
\* returns an error: AlreadyExists from the create step leads to the re-open.
C19_OpenOrCreateRace ==
    /\ Cardinality(Creators) <= 1
    /\ \A c \in Callers :
           /\ fpc[c] /= "err"
           /\ created[c] => lock_file = Some(c)
           /\ fpc[c] \in {"chmod", "ok"} => (file[c].some /\ file[c] = lock_file)
           /\ fpc[c] \in {"reopen", "chmod", "ok"} => lock_file.some
           /\ (fpc[c] = "ok" /\ lock_file /= Some(Preexisting))
                 => Cardinality(Creators) = 1

====
